---- MODULE Spec2Model ----
(***************************************************************************)
(* Risk profiler (src/app.py): the scoring engine compute_results and the  *)
(* session state (page, results) of the questionnaire application.         *)
(*                                                                         *)
(* Labels are the source's strings, with the en dash of the band and       *)
(* option labels written as an ASCII hyphen.                               *)
(***************************************************************************)
EXTENDS Integers, Sequences, FiniteSets, TLC

VARIABLES
    page,       \* st.session_state.page
    results,    \* st.session_state.results
    form,       \* the values of the questionnaire form's widgets
    calls,      \* how many times compute_results has been called
    submissions,\* how many times the form's submit button has been pressed
    error       \* the exception the last call of compute_results raised

vars == <<page, results, form, calls, submissions, error>>

(***************************************************************************)
(* CORE LOGIC DATA                                                         *)
(***************************************************************************)

\* Python's None, the value of an unanswered radio or selectbox (index=None);
\* it is not the string "None", which is an option of the debt question.
None == "<None>"

\* st.session_state.results = None
NoResults == [none |-> TRUE]

\* No exception.
NoError == [raised |-> FALSE]

LIKERT ==
    <<"Strongly agree", "Agree", "No strong opinion", "Disagree", "Strongly disagree">>

LIKERT_TO_NUM ==
    ("Strongly disagree" :> 1) @@ ("Disagree" :> 2) @@ ("No strong opinion" :> 3)
        @@ ("Agree" :> 4) @@ ("Strongly agree" :> 5)

\* A plausible slip in the tagging: statement 9 tagged like statement 7.
ITEMS_MisTagged ==
    << FALSE, TRUE, FALSE, FALSE, TRUE, FALSE, TRUE, TRUE, TRUE, FALSE, TRUE, FALSE >>

\* The second component (is_normal) of the 12 statements, in order.
ITEMS ==
    << FALSE, TRUE, FALSE, FALSE, TRUE, FALSE, TRUE, TRUE, FALSE, FALSE, TRUE, FALSE >>

\* Inclusive upper bounds turned exclusive.
category_from_score_Exclusive(score_0_100) ==
    IF score_0_100 < 25 THEN "Very Cautious (0-25)"
    ELSE IF score_0_100 < 33 THEN "Cautious (26-33)"
    ELSE IF score_0_100 < 44 THEN "Moderately Cautious (34-44)"
    ELSE IF score_0_100 < 56 THEN "Balanced (45-56)"
    ELSE IF score_0_100 < 67 THEN "Moderately Adventurous (57-67)"
    ELSE IF score_0_100 < 79 THEN "Adventurous (68-79)"
    ELSE "Very Adventurous (80-100)"

category_from_score(score_0_100) ==
    IF score_0_100 <= 25 THEN "Very Cautious (0-25)"
    ELSE IF score_0_100 <= 33 THEN "Cautious (26-33)"
    ELSE IF score_0_100 <= 44 THEN "Moderately Cautious (34-44)"
    ELSE IF score_0_100 <= 56 THEN "Balanced (45-56)"
    ELSE IF score_0_100 <= 67 THEN "Moderately Adventurous (57-67)"
    ELSE IF score_0_100 <= 79 THEN "Adventurous (68-79)"
    ELSE "Very Adventurous (80-100)"

\* The Balanced row given the alternatives cap of the next band.
MAX_POLICY_BalancedAlts ==
    ("Very Cautious (0-25)" :> [max_equity |-> 0, max_sukuk |-> 100, max_alternatives |-> 0])
    @@ ("Cautious (26-33)" :> [max_equity |-> 20, max_sukuk |-> 80, max_alternatives |-> 0])
    @@ ("Moderately Cautious (34-44)" :> [max_equity |-> 30, max_sukuk |-> 70, max_alternatives |-> 0])
    @@ ("Balanced (45-56)" :> [max_equity |-> 40, max_sukuk |-> 55, max_alternatives |-> 5])
    @@ ("Moderately Adventurous (57-67)" :> [max_equity |-> 60, max_sukuk |-> 35, max_alternatives |-> 5])
    @@ ("Adventurous (68-79)" :> [max_equity |-> 70, max_sukuk |-> 20, max_alternatives |-> 10])
    @@ ("Very Adventurous (80-100)" :> [max_equity |-> 70, max_sukuk |-> 0, max_alternatives |-> 30])

MAX_POLICY ==
    ("Very Cautious (0-25)" :> [max_equity |-> 0, max_sukuk |-> 100, max_alternatives |-> 0])
    @@ ("Cautious (26-33)" :> [max_equity |-> 20, max_sukuk |-> 80, max_alternatives |-> 0])
    @@ ("Moderately Cautious (34-44)" :> [max_equity |-> 30, max_sukuk |-> 70, max_alternatives |-> 0])
    @@ ("Balanced (45-56)" :> [max_equity |-> 40, max_sukuk |-> 60, max_alternatives |-> 0])
    @@ ("Moderately Adventurous (57-67)" :> [max_equity |-> 60, max_sukuk |-> 35, max_alternatives |-> 5])
    @@ ("Adventurous (68-79)" :> [max_equity |-> 70, max_sukuk |-> 20, max_alternatives |-> 10])
    @@ ("Very Adventurous (80-100)" :> [max_equity |-> 70, max_sukuk |-> 0, max_alternatives |-> 30])

BAND_ORDER ==
    << "Very Cautious (0-25)",
       "Cautious (26-33)",
       "Moderately Cautious (34-44)",
       "Balanced (45-56)",
       "Moderately Adventurous (57-67)",
       "Adventurous (68-79)",
       "Very Adventurous (80-100)" >>

\* BAND_ORDER.index(band), counted from 1.
BandIndex(band) == CHOOSE i \in 1..Len(BAND_ORDER) : BAND_ORDER[i] = band

Min(a, b) == IF a <= b THEN a ELSE b

\* max in place of min: the ceiling becomes a floor.
band_at_or_below_Max(current_band, max_band) ==
    BAND_ORDER[IF BandIndex(current_band) >= BandIndex(max_band)
               THEN BandIndex(current_band) ELSE BandIndex(max_band)]

band_at_or_below(current_band, max_band) ==
    BAND_ORDER[Min(BandIndex(current_band), BandIndex(max_band))]

(***************************************************************************)
(* compute_results: risk attitude scoring                                  *)
(***************************************************************************)

RECURSIVE SumSeq(_)
SumSeq(s) == IF s = <<>> THEN 0 ELSE Head(s) + SumSeq(Tail(s))

\* zip(ITEMS, attitude_choices) stops at the shorter of the two.
ZipLen(choices) == Min(Len(ITEMS), Len(choices))

ResponsesRaw(choices) == [i \in 1..ZipLen(choices) |-> LIKERT_TO_NUM[choices[i]]]

Scored(raw, is_normal) == IF is_normal THEN raw ELSE 6 - raw

ResponsesScored(choices) ==
    LET responses_raw == ResponsesRaw(choices)
    IN  [i \in 1..ZipLen(choices) |-> Scored(responses_raw[i], ITEMS[i])]

NeutralCount(choices) ==
    Cardinality({i \in 1..ZipLen(choices) : choices[i] = "No strong opinion"})

\* Ties rounded up instead of to the even neighbour.
RoundHalfUp(num, den) == (2 * num + den) \div (2 * den)

\* Python 3 round(num / den) for num >= 0, den > 0: nearest integer, ties to
\* the even neighbour. (Of the 49 quotients of line 641 the ties 12.5, 37.5,
\* 62.5 and 87.5 are exact in binary floating point and no other is within
\* 1/12 of a half, so the float and the exact rounding agree.)
Round(num, den) ==
    LET q == num \div den
        r == num % den
    IN  IF 2 * r < den THEN q
        ELSE IF 2 * r > den THEN q + 1
        ELSE IF q % 2 = 0 THEN q ELSE q + 1

RiskAttitudeScore(raw_total) == Round((raw_total - 12) * 100, 60 - 12)

(***************************************************************************)
(* compute_results: capacity for loss scoring                              *)
(***************************************************************************)

EMERGENCY_POINTS ==
    ("< 3 months" :> 0) @@ ("3-6 months" :> 2) @@ ("6-12 months" :> 4) @@ ("12+ months" :> 6)

INCOME_POINTS ==
    ("Unstable/variable" :> 0) @@ ("Somewhat stable" :> 2)
        @@ ("Stable (salaried/contracted)" :> 4)
        @@ ("Very stable (multiple reliable sources)" :> 6)

WITHDRAWAL_POINTS ==
    ("Very likely" :> 0) @@ ("Somewhat likely" :> 2) @@ ("Unlikely" :> 4) @@ ("Very unlikely" :> 6)

\* The scores of the two best options exchanged.
DEBT_POINTS_Swapped ==
    ("High / hard to service" :> 0) @@ ("Moderate" :> 2) @@ ("Low" :> 6) @@ ("None" :> 4)

DEBT_POINTS ==
    ("High / hard to service" :> 0) @@ ("Moderate" :> 2) @@ ("Low" :> 4) @@ ("None" :> 6)

DEPENDENCE_POINTS ==
    ("Highly dependent" :> 0) @@ ("Somewhat dependent" :> 2)
        @@ ("Not very dependent" :> 4) @@ ("Not dependent" :> 6)

CapPoints(inputs) ==
    0 + EMERGENCY_POINTS[inputs.emergency_months]
      + INCOME_POINTS[inputs.income_stability]
      + WITHDRAWAL_POINTS[inputs.withdrawal_need]
      + DEBT_POINTS[inputs.debt_burden]
      + DEPENDENCE_POINTS[inputs.portfolio_dependence]

\* Strict comparisons: the boundary totals 10 and 20 fall in the next band.
CapacityBand_Strict(cap_points) ==
    IF cap_points < 10 THEN "Low capacity for loss"
    ELSE IF cap_points < 20 THEN "Medium capacity for loss"
    ELSE "High capacity for loss"

CapacityBand(cap_points) ==
    IF cap_points <= 10 THEN "Low capacity for loss"
    ELSE IF cap_points <= 20 THEN "Medium capacity for loss"
    ELSE "High capacity for loss"

\* The High row capped like the Medium one.
CAPACITY_MAX_BAND_HighBalanced ==
    ("Low capacity for loss" :> "Moderately Cautious (34-44)")
    @@ ("Medium capacity for loss" :> "Balanced (45-56)")
    @@ ("High capacity for loss" :> "Balanced (45-56)")

CAPACITY_MAX_BAND ==
    ("Low capacity for loss" :> "Moderately Cautious (34-44)")
    @@ ("Medium capacity for loss" :> "Balanced (45-56)")
    @@ ("High capacity for loss" :> "Very Adventurous (80-100)")

(***************************************************************************)
(* compute_results: alternatives gating, limits, flags, scope              *)
(***************************************************************************)

\* The index the specification names: the 7th statement.
LimitedExperience_Stmt7(responses_raw) == responses_raw[7] >= 4

\* responses_raw[8] (0-based): the 9th statement.
LimitedExperience(responses_raw) == responses_raw[9] >= 4

NeedsLiquiditySoon(withdrawal_need) ==
    withdrawal_need \in {"Very likely", "Somewhat likely"}

\* elif in place of the independent ifs: only the first reason is reported.
AltForcedZeroReasons_FirstOnly(needs_liquidity_soon, low_capacity, gate, limited_experience) ==
    IF needs_liquidity_soon THEN <<"Large withdrawal likely within 3 years">>
    ELSE IF low_capacity THEN <<"Low capacity for loss">>
    ELSE IF gate /\ limited_experience
         THEN <<"Client indicates limited investment experience">>
    ELSE <<>>

AltForcedZeroReasons(needs_liquidity_soon, low_capacity, gate, limited_experience) ==
    (IF needs_liquidity_soon THEN <<"Large withdrawal likely within 3 years">> ELSE <<>>)
    \o (IF low_capacity THEN <<"Low capacity for loss">> ELSE <<>>)
    \o (IF gate /\ limited_experience
        THEN <<"Client indicates limited investment experience">> ELSE <<>>)

\* The removed alternatives are dropped instead of moved into sukuk.
FinalLimits_NoRebalance(base_limits, alt_forced_zero_reasons) ==
    IF alt_forced_zero_reasons # <<>>
    THEN [base_limits EXCEPT !.max_alternatives = 0]
    ELSE base_limits

\* The removed alternatives are moved into equity instead of sukuk.
FinalLimits_IntoEquity(base_limits, alt_forced_zero_reasons) ==
    IF alt_forced_zero_reasons # <<>>
    THEN [base_limits EXCEPT !.max_alternatives = 0,
                             !.max_equity = Min(100, @ + base_limits.max_alternatives)]
    ELSE base_limits

FinalLimits(base_limits, alt_forced_zero_reasons) ==
    LET zeroed == IF alt_forced_zero_reasons # <<>>
                  THEN [base_limits EXCEPT !.max_alternatives = 0]
                  ELSE base_limits
        removed_alt == base_limits.max_alternatives - zeroed.max_alternatives
    IN  IF removed_alt > 0
        THEN [zeroed EXCEPT !.max_sukuk = Min(100, zeroed.max_sukuk + removed_alt)]
        ELSE zeroed

\* "More than six" in place of "six or more" neutral answers.
Flags_StrictNeutral(neutral_count, risk_attitude_score, raw_stmt12, limited_experience) ==
    (IF neutral_count > 6
     THEN <<"Many neutral answers (6+). Consider clarifying and reassessing.">>
     ELSE <<>>)
    \o (IF risk_attitude_score >= 68 /\ raw_stmt12 >= 4
        THEN <<"High score but strong discomfort with market swings-discuss suitability carefully.">>
        ELSE <<>>)
    \o (IF risk_attitude_score >= 68 /\ limited_experience
        THEN <<"High score but self-reported limited experience-consider education / simplification.">>
        ELSE <<>>)

Flags(neutral_count, risk_attitude_score, raw_stmt12, limited_experience) ==
    (IF neutral_count >= 6
     THEN <<"Many neutral answers (6+). Consider clarifying and reassessing.">>
     ELSE <<>>)
    \o (IF risk_attitude_score >= 68 /\ raw_stmt12 >= 4
        THEN <<"High score but strong discomfort with market swings-discuss suitability carefully.">>
        ELSE <<>>)
    \o (IF risk_attitude_score >= 68 /\ limited_experience
        THEN <<"High score but self-reported limited experience-consider education / simplification.">>
        ELSE <<>>)

\* The first two labels appended in the other order.
AltsInScope_CommoditiesFirst(inputs) ==
    (IF inputs.alt_scope_commodities THEN <<"Commodity funds">> ELSE <<>>)
    \o (IF inputs.alt_scope_reits THEN <<"Public REITs">> ELSE <<>>)
    \o (IF inputs.alt_equities_toggle
        THEN <<"Selected equities treated as 'alternative-like' (internal classification)">>
        ELSE <<>>)

AltsInScope(inputs) ==
    (IF inputs.alt_scope_reits THEN <<"Public REITs">> ELSE <<>>)
    \o (IF inputs.alt_scope_commodities THEN <<"Commodity funds">> ELSE <<>>)
    \o (IF inputs.alt_equities_toggle
        THEN <<"Selected equities treated as 'alternative-like' (internal classification)">>
        ELSE <<>>)

CAPACITY_LOOKUPS ==
    << [field |-> "emergency_months", points |-> EMERGENCY_POINTS, line |-> 652],
       [field |-> "income_stability", points |-> INCOME_POINTS, line |-> 653],
       [field |-> "withdrawal_need", points |-> WITHDRAWAL_POINTS, line |-> 659],
       [field |-> "debt_burden", points |-> DEBT_POINTS, line |-> 660],
       [field |-> "portfolio_dependence", points |-> DEPENDENCE_POINTS, line |-> 661] >>

\* An exception leaving compute_results at `line`, after `statements_scored`
\* passes of the loop of lines 632-638, with the attitude score and band
\* (lines 640-642) computed or not.
Raise(exception, line, statements_scored, attitude_scored) ==
    [ raised |-> TRUE, exception |-> exception, line |-> line,
      statements_scored |-> statements_scored, attitude_scored |-> attitude_scored ]

\* The selections no key of LIKERT_TO_NUM, among those the loop reaches.
BadSelections(choices) ==
    {i \in 1..ZipLen(choices) : choices[i] \notin DOMAIN LIKERT_TO_NUM}

\* The capacity lookups no key of their dict, in the order of the lookups.
BadLookups(inputs) ==
    SelectSeq(CAPACITY_LOOKUPS, LAMBDA l : inputs[l.field] \notin DOMAIN l.points)

\* The capacity answers validated before the loop over the statements.
RaisedBy_CapacityFirst(inputs) ==
    LET choices == inputs.attitude_choices
        bad == BadSelections(choices)
    IN  IF BadLookups(inputs) # <<>>
        THEN Raise("KeyError", BadLookups(inputs)[1].line, 0, FALSE)
        ELSE IF bad # {}
        THEN Raise("KeyError", 635, (CHOOSE i \in bad : \A j \in bad : i <= j) - 1, FALSE)
        ELSE IF ZipLen(choices) < 9
        THEN Raise("IndexError", 681, ZipLen(choices), TRUE)
        ELSE IF ZipLen(choices) < 12
        THEN Raise("IndexError", 708, ZipLen(choices), TRUE)
        ELSE NoError

\* The exception compute_results(inputs) raises, NoError if it returns: the
\* first failing lookup in the order the code makes them.
RaisedBy(inputs) ==
    LET choices == inputs.attitude_choices
        bad == BadSelections(choices)
    IN  IF bad # {}
        THEN Raise("KeyError", 635, (CHOOSE i \in bad : \A j \in bad : i <= j) - 1, FALSE)
        ELSE IF BadLookups(inputs) # <<>>
        THEN Raise("KeyError", BadLookups(inputs)[1].line, ZipLen(choices), TRUE)
        ELSE IF ZipLen(choices) < 9
        THEN Raise("IndexError", 681, ZipLen(choices), TRUE)
        ELSE IF ZipLen(choices) < 12
        THEN Raise("IndexError", 708, ZipLen(choices), TRUE)
        ELSE NoError

\* == in place of !=.
OverrideApplied_Inverted(final_band, risk_attitude_band) == final_band = risk_attitude_band

OverrideApplied(final_band, risk_attitude_band) == final_band # risk_attitude_band

compute_results(inputs) ==
    LET responses_raw == ResponsesRaw(inputs.attitude_choices)
        responses_scored == ResponsesScored(inputs.attitude_choices)
        neutral_count == NeutralCount(inputs.attitude_choices)
        raw_total == SumSeq(responses_scored)
        risk_attitude_score == RiskAttitudeScore(raw_total)
        risk_attitude_band == category_from_score(risk_attitude_score)
        cap_points == CapPoints(inputs)
        capacity_band == CapacityBand(cap_points)
        capacity_max_allowed_band == CAPACITY_MAX_BAND[capacity_band]
        final_band == band_at_or_below(risk_attitude_band, capacity_max_allowed_band)
        override_applied == OverrideApplied(final_band, risk_attitude_band)
        limited_experience == LimitedExperience(responses_raw)
        needs_liquidity_soon == NeedsLiquiditySoon(inputs.withdrawal_need)
        low_capacity == capacity_band = "Low capacity for loss"
        alt_forced_zero_reasons ==
            AltForcedZeroReasons(needs_liquidity_soon, low_capacity,
                                 inputs.limited_experience_gate, limited_experience)
        base_limits == MAX_POLICY[final_band]
        final_limits == FinalLimits(base_limits, alt_forced_zero_reasons)
        flags == Flags(neutral_count, risk_attitude_score, responses_raw[12],
                       limited_experience)
    IN  [ risk_attitude_score |-> risk_attitude_score,
          risk_attitude_band |-> risk_attitude_band,
          neutral_count |-> neutral_count,
          cap_points |-> cap_points,
          capacity_band |-> capacity_band,
          capacity_max_allowed_band |-> capacity_max_allowed_band,
          final_band |-> final_band,
          override_applied |-> override_applied,
          base_limits |-> base_limits,
          final_limits |-> final_limits,
          alt_forced_zero_reasons |-> alt_forced_zero_reasons,
          flags |-> flags,
          alts_in_scope |-> AltsInScope(inputs),
          capacity_inputs |->
              [ emergency_months |-> inputs.emergency_months,
                income_stability |-> inputs.income_stability,
                withdrawal_need |-> inputs.withdrawal_need,
                debt_burden |-> inputs.debt_burden,
                portfolio_dependence |-> inputs.portfolio_dependence ] ]

(***************************************************************************)
(* QUESTIONNAIRE PAGE: the form and its submit handler                     *)
(***************************************************************************)

EMERGENCY_OPTIONS == <<"< 3 months", "3-6 months", "6-12 months", "12+ months">>

INCOME_OPTIONS ==
    <<"Unstable/variable", "Somewhat stable", "Stable (salaried/contracted)",
      "Very stable (multiple reliable sources)">>

WITHDRAWAL_OPTIONS == <<"Very likely", "Somewhat likely", "Unlikely", "Very unlikely">>

DEBT_OPTIONS == <<"High / hard to service", "Moderate", "Low", "None">>

DEPENDENCE_OPTIONS ==
    <<"Highly dependent", "Somewhat dependent", "Not very dependent", "Not dependent">>

\* The checkboxes' value= defaults.
DefaultCheckboxes ==
    [ alt_scope_reits |-> TRUE, alt_scope_commodities |-> TRUE,
      alt_equities_toggle |-> FALSE, limited_experience_gate |-> TRUE ]

\* The form as first rendered: every radio and selectbox has index=None.
BlankForm ==
    [ attitude_choices |-> [i \in 1..Len(ITEMS) |-> None],
      emergency_months |-> None, income_stability |-> None,
      withdrawal_need |-> None, debt_burden |-> None,
      portfolio_dependence |-> None ] @@ DefaultCheckboxes

ATTITUDE_LABELS ==
    << "Risk attitude question 1", "Risk attitude question 2", "Risk attitude question 3",
       "Risk attitude question 4", "Risk attitude question 5", "Risk attitude question 6",
       "Risk attitude question 7", "Risk attitude question 8", "Risk attitude question 9",
       "Risk attitude question 10", "Risk attitude question 11", "Risk attitude question 12" >>

\* The list `missing` of the submit handler.
Missing(f) ==
    LET unanswered == SelectSeq([i \in 1..Len(f.attitude_choices) |-> i],
                                LAMBDA i : f.attitude_choices[i] = None)
    IN  [k \in 1..Len(unanswered) |-> ATTITUDE_LABELS[unanswered[k]]]
        \o (IF f.emergency_months = None THEN <<"Capacity: emergency fund">> ELSE <<>>)
        \o (IF f.income_stability = None THEN <<"Capacity: income stability">> ELSE <<>>)
        \o (IF f.withdrawal_need = None THEN <<"Capacity: withdrawal likelihood">> ELSE <<>>)
        \o (IF f.debt_burden = None THEN <<"Capacity: debt burden">> ELSE <<>>)
        \o (IF f.portfolio_dependence = None THEN <<"Capacity: portfolio dependence">> ELSE <<>>)

\* The dict `inputs` the handler builds from the widgets' values.
Inputs(f) == f

(***************************************************************************)
(* Answers explored                                                        *)
(***************************************************************************)

\* How many statements of a profile may be answered off its pattern.
MaxAttDev == 1

\* How many calls of compute_results a session is followed for.
MaxCalls == 3

\* How many presses of the submit button a session is followed for.
MaxSubmissions == 4

Likert == {LIKERT[i] : i \in 1..Len(LIKERT)}

\* Answer a on every normal-tagged statement, b on every reverse-tagged one.
Pattern(a, b) == [i \in 1..Len(ITEMS) |-> IF ITEMS[i] THEN a ELSE b]

RECURSIVE Deviate(_, _)
Deviate(S, k) ==
    IF k = 0 THEN S
    ELSE LET T == Deviate(S, k - 1)
         IN  T \cup {[p EXCEPT ![i] = c] : p \in T, i \in 1..Len(ITEMS), c \in Likert}

Patterns == {Pattern(a, b) : a \in Likert, b \in Likert}

AttProfiles == Deviate(Patterns, MaxAttDev)

UniformAtt == {Pattern(a, a) : a \in Likert}

Capacity(e, i, w, d, p) ==
    [ emergency_months |-> EMERGENCY_OPTIONS[e], income_stability |-> INCOME_OPTIONS[i],
      withdrawal_need |-> WITHDRAWAL_OPTIONS[w], debt_burden |-> DEBT_OPTIONS[d],
      portfolio_dependence |-> DEPENDENCE_OPTIONS[p] ]

Tiers == 1..Len(EMERGENCY_OPTIONS)

AllCapacity == {Capacity(e, i, w, d, p) : e \in Tiers, i \in Tiers, w \in Tiers, d \in Tiers, p \in Tiers}

UniformCapacity == {Capacity(t, t, t, t, t) : t \in Tiers}

AllCheckboxes ==
    [ alt_scope_reits : BOOLEAN, alt_scope_commodities : BOOLEAN,
      alt_equities_toggle : BOOLEAN, limited_experience_gate : BOOLEAN ]

GateOnly ==
    {[DefaultCheckboxes EXCEPT !.limited_experience_gate = g] : g \in BOOLEAN}

Filled(att, cap, chk) == [attitude_choices |-> att] @@ cap @@ chk

\* Every attitude profile, with the best capacity tier, which caps no band.
AttitudeSweep ==
    {Filled(att, Capacity(4, 4, 4, 4, 4), chk) : att \in AttProfiles, chk \in GateOnly}

\* Every combination of capacity answers, against the five uniform profiles.
CapacitySweep == {Filled(att, cap, chk) : att \in UniformAtt, cap \in AllCapacity, chk \in GateOnly}

\* Every pattern against every uniform capacity tier and every combination
\* of checkboxes.
CrossSweep ==
    {Filled(att, cap, chk) : att \in Patterns, cap \in UniformCapacity, chk \in AllCheckboxes}

CompleteForms == AttitudeSweep \cup CapacitySweep \cup CrossSweep

\* The forms a session fills in: complete ones, the blank one, and complete
\* ones with one answer cleared.
SessionForms ==
    LET complete == {Filled(att, cap, DefaultCheckboxes) : att \in UniformAtt, cap \in UniformCapacity}
    IN  complete \cup {BlankForm}
        \cup {[f EXCEPT !.attitude_choices[12] = None] : f \in complete}
        \cup {[f EXCEPT !.debt_burden = None] : f \in complete}

\* Inputs of a direct call: complete forms, and the same with a selection or
\* a capacity answer (or both) absent or outside its enumeration, or with
\* fewer than twelve selections.
WithBadSelection(F) ==
    {[f EXCEPT !.attitude_choices[i] = v] : f \in F, i \in 1..Len(ITEMS), v \in {None, "Maybe"}}

WithBadAnswer(F) ==
    {[x \in DOMAIN f |-> IF x = CAPACITY_LOOKUPS[q].field THEN v ELSE f[x]] :
        f \in F, q \in 1..Len(CAPACITY_LOOKUPS), v \in {None, "Other"}}

WithFewerSelections(F) ==
    {[f EXCEPT !.attitude_choices = SubSeq(@, 1, n)] : f \in F, n \in 0..(Len(ITEMS) - 1)}

EngineInputs ==
    LET complete == {Filled(att, cap, DefaultCheckboxes) : att \in UniformAtt, cap \in UniformCapacity}
    IN  complete \cup WithBadSelection(complete) \cup WithBadAnswer(complete)
        \cup WithBadAnswer(WithBadSelection(complete))
        \cup WithFewerSelections(complete) \cup WithBadAnswer(WithFewerSelections(complete))

(***************************************************************************)
(* STATE / NAV and the actions                                             *)
(***************************************************************************)

\* results = compute_results(inputs), or the exception it raises.
Call(inputs) ==
    /\ calls' = calls + 1
    /\ error' = RaisedBy(inputs)
    /\ IF RaisedBy(inputs) # NoError
       THEN UNCHANGED results
       ELSE results' = compute_results(inputs)

\* The user answers the form in the browser; nothing runs.
Fill(f) ==
    /\ page = "questionnaire"
    /\ form' = f
    /\ UNCHANGED <<page, results, calls, submissions, error>>

\* Only the first submission computes: later ones show the stored results.
Submit_KeepsFirstResults ==
    /\ page = "questionnaire"
    /\ submissions < MaxSubmissions
    /\ submissions' = submissions + 1
    /\ IF Missing(form) # <<>>
       THEN UNCHANGED <<page, results, calls, error>>
       ELSE IF results # NoResults
       THEN page' = "results" /\ UNCHANGED <<results, calls, error>>
       ELSE /\ calls < MaxCalls
            /\ Call(Inputs(form))
            /\ page' = IF RaisedBy(Inputs(form)) # NoError THEN page ELSE "results"
    /\ UNCHANGED form

\* if submitted: ... (the form's submit button). st.error on a missing
\* answer; otherwise the call, and go_results() unless it raised.
Submit ==
    /\ page = "questionnaire"
    /\ submissions < MaxSubmissions
    /\ submissions' = submissions + 1
    /\ IF Missing(form) # <<>>
       THEN UNCHANGED <<page, results, calls, error>>
       ELSE /\ calls < MaxCalls
            /\ Call(Inputs(form))
            /\ page' = IF RaisedBy(Inputs(form)) # NoError THEN page ELSE "results"
    /\ UNCHANGED form

\* compute_results called directly, with whatever inputs.
CallEngine ==
    /\ calls = 0
    /\ Call(form)
    /\ UNCHANGED <<page, form, submissions>>

\* The "Questionnaire" button.
NavQuestionnaire ==
    /\ page' = "questionnaire"
    /\ UNCHANGED <<results, form, calls, submissions, error>>

\* The "Results" button never disabled.
NavResults_AlwaysEnabled ==
    /\ page' = "results"
    /\ UNCHANGED <<results, form, calls, submissions, error>>

\* The "Results" button, disabled while there are no results.
NavResults ==
    /\ results # NoResults
    /\ page' = "results"
    /\ UNCHANGED <<results, form, calls, submissions, error>>

\* One submission of a completely answered form.
Init ==
    /\ page = "questionnaire"
    /\ results = NoResults
    /\ form \in CompleteForms
    /\ calls = 0
    /\ submissions = 0
    /\ error = NoError

Next == Submit

Spec == Init /\ [][Next]_vars

\* A session: the blank form, then any filling, submitting and navigating.
SessionInit ==
    /\ page = "questionnaire"
    /\ results = NoResults
    /\ form = BlankForm
    /\ calls = 0
    /\ submissions = 0
    /\ error = NoError

SessionNext ==
    \/ \E f \in SessionForms : Fill(f)
    \/ Submit
    \/ NavQuestionnaire
    \/ NavResults

SessionSpec == SessionInit /\ [][SessionNext]_vars

\* One direct call of compute_results, valid inputs or not.
EngineInit ==
    /\ page = "questionnaire"
    /\ results = NoResults
    /\ form \in EngineInputs
    /\ calls = 0
    /\ submissions = 0
    /\ error = NoError

EngineNext == CallEngine

EngineSpec == EngineInit /\ [][EngineNext]_vars

(***************************************************************************)
(* Properties of Spec. In Spec the form is the input of the one call, so   *)
(* once page = "results" the state holds the input and its Results.        *)
(***************************************************************************)

Computed == page = "results" /\ results # NoResults

RawOf(i) == LIKERT_TO_NUM[form.attitude_choices[i]]

Statements == 1..Len(ITEMS)

\* C1: final_band is the more cautious of risk_attitude_band and
\* capacity_max_allowed_band in the 7-band order: never above either of them,
\* and equal to one of them.
C1_FinalBandIsMoreCautious ==
    Computed =>
        LET r == BandIndex(results.risk_attitude_band)
            c == BandIndex(results.capacity_max_allowed_band)
            f == BandIndex(results.final_band)
        IN  /\ f <= r
            /\ f <= c
            /\ f \in {r, c}
            /\ results.final_band \in {results.risk_attitude_band,
                                       results.capacity_max_allowed_band}

\* The capacity ceiling binds: the attitude band is strictly above it.
C1_Witness ==
    /\ Computed
    /\ BandIndex(results.risk_attitude_band) > BandIndex(results.capacity_max_allowed_band)
    /\ results.final_band = results.capacity_max_allowed_band

\* C2: gating invariant. With a reason, alternatives are 0 and sukuk is
\* min(100, base sukuk + base alternatives); with none, final = base limits.
C2_GatingInvariant ==
    Computed =>
        LET b == results.base_limits
            f == results.final_limits
        IN  IF results.alt_forced_zero_reasons # <<>>
            THEN /\ f.max_alternatives = 0
                 /\ f.max_sukuk = Min(100, b.max_sukuk + b.max_alternatives)
            ELSE /\ f.max_equity = b.max_equity
                 /\ f.max_sukuk = b.max_sukuk
                 /\ f.max_alternatives = b.max_alternatives

\* A gate fires on a band whose base alternatives cap is positive.
C2_Witness ==
    /\ Computed
    /\ results.alt_forced_zero_reasons # <<>>
    /\ results.base_limits.max_alternatives > 0
    /\ results.final_limits.max_sukuk > results.base_limits.max_sukuk

REASON_ORDER ==
    << "Large withdrawal likely within 3 years",
       "Low capacity for loss",
       "Client indicates limited investment experience" >>

\* The condition of each reason, read from the input and the capacity band.
ReasonHolds(reason) ==
    CASE reason = REASON_ORDER[1] ->
            form.withdrawal_need \in {"Very likely", "Somewhat likely"}
      [] reason = REASON_ORDER[2] ->
            results.capacity_band = "Low capacity for loss"
      [] reason = REASON_ORDER[3] ->
            form.limited_experience_gate /\ RawOf(9) >= 4

\* C3: alt_forced_zero_reasons is exactly the sub-list of (liquidity,
\* capacity, experience), in that order, of the reasons whose condition
\* holds; "Very likely" with High capacity and no limited experience gives
\* the liquidity reason alone.
C3_ReasonsExactAndOrdered ==
    Computed =>
        /\ results.alt_forced_zero_reasons = SelectSeq(REASON_ORDER, ReasonHolds)
        /\ (/\ form.withdrawal_need = "Very likely"
            /\ results.capacity_band = "High capacity for loss"
            /\ RawOf(9) < 4)
           => results.alt_forced_zero_reasons = <<"Large withdrawal likely within 3 years">>

\* "Very likely" with High capacity and no limited experience.
C3_Witness ==
    /\ Computed
    /\ form.withdrawal_need = "Very likely"
    /\ results.capacity_band = "High capacity for loss"
    /\ RawOf(9) < 4
    /\ results.alt_forced_zero_reasons = <<"Large withdrawal likely within 3 years">>

InSeq(x, s) == \E k \in 1..Len(s) : s[k] = x

HasExperienceReason(res) ==
    InSeq("Client indicates limited investment experience", res.alt_forced_zero_reasons)

HasExperienceFlag(res) ==
    InSeq("High score but self-reported limited experience-consider education / simplification.",
          res.flags)

\* C4 as written: the limited-experience condition of the third gate and of
\* the experience flag is "raw value of the 7th statement >= 4".
C4_Original_Statement7 ==
    Computed =>
        /\ HasExperienceReason(results)
              <=> (form.limited_experience_gate /\ RawOf(7) >= 4)
        /\ HasExperienceFlag(results)
              <=> (results.risk_attitude_score >= 68 /\ RawOf(7) >= 4)

\* C4, amended: the condition is "raw value of the 9th statement >= 4" (the
\* reverse-tagged "I have limited experience ..."), for the gate and for the
\* flag alike, and changing the answer to any other statement leaves the
\* gate's reason as it is.
C4_LimitedExperienceIsStatement9 ==
    Computed =>
        /\ ~ITEMS[9]
        /\ HasExperienceReason(results)
              <=> (form.limited_experience_gate /\ RawOf(9) >= 4)
        /\ HasExperienceFlag(results)
              <=> (results.risk_attitude_score >= 68 /\ RawOf(9) >= 4)
        /\ \A i \in Statements \ {9} : \A c \in Likert :
              HasExperienceReason(
                  compute_results([form EXCEPT !.attitude_choices[i] = c]))
              <=> HasExperienceReason(results)

\* The 9th statement, not the 7th, decides: the gate fires with statement 7
\* below 4.
C4_Witness ==
    /\ Computed
    /\ form.limited_experience_gate
    /\ RawOf(9) >= 4
    /\ RawOf(7) < 4
    /\ HasExperienceReason(results)

POLICY_ROWS ==
    << [max_equity |-> 0,  max_sukuk |-> 100, max_alternatives |-> 0],
       [max_equity |-> 20, max_sukuk |-> 80,  max_alternatives |-> 0],
       [max_equity |-> 30, max_sukuk |-> 70,  max_alternatives |-> 0],
       [max_equity |-> 40, max_sukuk |-> 60,  max_alternatives |-> 0],
       [max_equity |-> 60, max_sukuk |-> 35,  max_alternatives |-> 5],
       [max_equity |-> 70, max_sukuk |-> 20,  max_alternatives |-> 10],
       [max_equity |-> 70, max_sukuk |-> 0,   max_alternatives |-> 30] >>

\* MAX_POLICY is the table listed, monotone along the band order.
PolicyTableAsListed ==
    /\ \A i \in 1..Len(BAND_ORDER) : MAX_POLICY[BAND_ORDER[i]] = POLICY_ROWS[i]
    /\ \A i \in 1..(Len(BAND_ORDER) - 1) :
          LET lo == MAX_POLICY[BAND_ORDER[i]]
              hi == MAX_POLICY[BAND_ORDER[i + 1]]
          IN  /\ lo.max_equity <= hi.max_equity
              /\ lo.max_alternatives <= hi.max_alternatives
              /\ lo.max_sukuk >= hi.max_sukuk

\* C5: base_limits is the row of final_band in the policy table; the table
\* is the one listed, and along the band order equity and alternatives never
\* fall and sukuk never rises (PolicyTableAsListed).
C5_BaseLimitsFromFinalBand ==
    /\ PolicyTableAsListed
    /\ Computed => results.base_limits = POLICY_ROWS[BandIndex(results.final_band)]

\* The capped band governs: the attitude band's own row is another one.
C5_Witness ==
    /\ Computed
    /\ results.final_band # results.risk_attitude_band
    /\ results.base_limits = POLICY_ROWS[BandIndex(results.final_band)]
    /\ results.base_limits # POLICY_ROWS[BandIndex(results.risk_attitude_band)]

\* The contribution of statement i: r if normal-tagged, 6 - r if reverse.
Contribution(i) == IF ITEMS[i] THEN RawOf(i) ELSE 6 - RawOf(i)

RawTotal == SumSeq([i \in Statements |-> Contribution(i)])

\* C6: every selection maps to 1..5, rawTotal is in 12..60, the score is the
\* integer nearest to (rawTotal - 12) * 100 / 48, the even one at a tie, ties
\* being rawTotal - 12 in {6, 18, 30, 42}; it is in 0..100; neutral_count
\* counts the "No strong opinion" selections; twelve of them give rawTotal
\* 36, score 50, band Balanced, neutral_count 12.
C6_AttitudeScore ==
    Computed =>
        LET s == results.risk_attitude_score
            d == 48 * s - 100 * (RawTotal - 12)
            neutral == {i \in Statements : form.attitude_choices[i] = "No strong opinion"}
        IN  /\ \A i \in Statements : RawOf(i) \in 1..5
            /\ RawTotal \in 12..60
            /\ s \in 0..100
            /\ d \in -24..24
            /\ d \in {-24, 24} <=> (RawTotal - 12) \in {6, 18, 30, 42}
            /\ d \in {-24, 24} => s % 2 = 0
            /\ results.neutral_count = Cardinality(neutral)
            /\ results.neutral_count \in 0..12
            /\ neutral = Statements =>
                  /\ RawTotal = 36
                  /\ s = 50
                  /\ results.risk_attitude_band = "Balanced (45-56)"
                  /\ results.neutral_count = 12

\* A tie: rawTotal - 12 = 30, 62.5 rounded to the even 62.
C6_Witness ==
    /\ Computed
    /\ RawTotal - 12 = 30
    /\ results.risk_attitude_score = 62

AllStronglyAgree == \A i \in Statements : form.attitude_choices[i] = "Strongly agree"

NormalTagged == {i \in Statements : ITEMS[i]}

ReverseTagged == {i \in Statements : ~ITEMS[i]}

\* C7 as written: six reverse-tagged and six normal-tagged statements, so
\* twelve "Strongly agree" give rawTotal 36 and score 50.
C7_Original_SixAndSix ==
    (Computed /\ AllStronglyAgree) =>
        /\ Cardinality(NormalTagged) = 6
        /\ Cardinality(ReverseTagged) = 6
        /\ RawTotal = 36
        /\ results.risk_attitude_score = 50

\* C7, amended: with twelve "Strongly agree", normal-tagged statements
\* contribute 5 and reverse-tagged 1; the list holds 5 normal-tagged and 7
\* reverse-tagged statements, so rawTotal = 32 and the score is 42.
C7_AllStronglyAgree ==
    (Computed /\ AllStronglyAgree) =>
        /\ \A i \in NormalTagged : ResponsesScored(form.attitude_choices)[i] = 5
        /\ \A i \in ReverseTagged : ResponsesScored(form.attitude_choices)[i] = 1
        /\ Cardinality(NormalTagged) = 5
        /\ Cardinality(ReverseTagged) = 7
        /\ RawTotal = 32
        /\ results.risk_attitude_score = 42

C7_Witness ==
    /\ Computed
    /\ AllStronglyAgree
    /\ results.risk_attitude_score = 42

\* The inclusive upper bound of each band, in band order.
UPPER_BOUNDS == <<25, 33, 44, 56, 67, 79, 100>>

\* The first band whose upper bound the score does not exceed.
BandOfScore(s) ==
    BAND_ORDER[CHOOSE i \in 1..Len(UPPER_BOUNDS) :
                  /\ s <= UPPER_BOUNDS[i]
                  /\ \A j \in 1..(i - 1) : s > UPPER_BOUNDS[j]]

\* category_from_score on every score 0..100.
EveryScoreBanded ==
    /\ \A s \in 0..100 : category_from_score(s) = BandOfScore(s)
    /\ \A s \in 0..99 :
          BandIndex(category_from_score(s)) <= BandIndex(category_from_score(s + 1))

\* C8: every score 0..100 falls in exactly the band whose inclusive upper
\* bound is the first it does not exceed, a higher score never in a more
\* cautious band (EveryScoreBanded); and the band reported is the one of the
\* score reported.
C8_BandOfScore ==
    /\ EveryScoreBanded
    /\ Computed => results.risk_attitude_band = BandOfScore(results.risk_attitude_score)

\* A score on an inclusive upper bound.
C8_Witness ==
    /\ Computed
    /\ results.risk_attitude_score = 25
    /\ results.risk_attitude_band = "Very Cautious (0-25)"

CAPACITY_QUESTIONS ==
    << [field |-> "emergency_months", options |-> EMERGENCY_OPTIONS, points |-> EMERGENCY_POINTS],
       [field |-> "income_stability", options |-> INCOME_OPTIONS, points |-> INCOME_POINTS],
       [field |-> "withdrawal_need", options |-> WITHDRAWAL_OPTIONS, points |-> WITHDRAWAL_POINTS],
       [field |-> "debt_burden", options |-> DEBT_OPTIONS, points |-> DEBT_POINTS],
       [field |-> "portfolio_dependence", options |-> DEPENDENCE_OPTIONS, points |-> DEPENDENCE_POINTS] >>

\* The position (1..4, lowest capacity first) of the answer to question q.
Tier(f, q) ==
    CHOOSE k \in Tiers : CAPACITY_QUESTIONS[q].options[k] = f[CAPACITY_QUESTIONS[q].field]

TierPoints(f) == SumSeq([q \in 1..Len(CAPACITY_QUESTIONS) |-> 2 * (Tier(f, q) - 1)])

\* Every question scores its options 0, 2, 4, 6 in the order listed.
OptionsScoreByTier ==
    \A q \in 1..Len(CAPACITY_QUESTIONS) : \A k \in Tiers :
        CAPACITY_QUESTIONS[q].points[CAPACITY_QUESTIONS[q].options[k]] = 2 * (k - 1)

\* C9: each answer scores 0, 2, 4, 6 by rising capacity (OptionsScoreByTier);
\* cap_points is the sum, even and in 0..30; the band is Low up to 10, Medium
\* up to 20, High above; the ceiling is Moderately Cautious, Balanced, Very
\* Adventurous.
C9_CapacityScoring ==
    /\ OptionsScoreByTier
    /\ Computed =>
          LET p == results.cap_points
          IN  /\ p = TierPoints(form)
              /\ p % 2 = 0
              /\ p \in 0..30
              /\ results.capacity_band =
                    (IF p <= 10 THEN "Low capacity for loss"
                     ELSE IF p <= 20 THEN "Medium capacity for loss"
                     ELSE "High capacity for loss")
              /\ results.capacity_max_allowed_band =
                    (CASE results.capacity_band = "Low capacity for loss" ->
                              "Moderately Cautious (34-44)"
                       [] results.capacity_band = "Medium capacity for loss" ->
                              "Balanced (45-56)"
                       [] results.capacity_band = "High capacity for loss" ->
                              "Very Adventurous (80-100)")

\* A total on a band's inclusive upper bound.
C9_Witness ==
    /\ Computed
    /\ results.cap_points = 20
    /\ results.capacity_band = "Medium capacity for loss"
    /\ results.capacity_max_allowed_band = "Balanced (45-56)"

CapacityRank(band) ==
    CASE band = "Low capacity for loss" -> 1
      [] band = "Medium capacity for loss" -> 2
      [] band = "High capacity for loss" -> 3

\* The input f with the answer to capacity question q set to its k-th option.
WithTier(f, q, k) ==
    [x \in DOMAIN f |-> IF x = CAPACITY_QUESTIONS[q].field
                        THEN CAPACITY_QUESTIONS[q].options[k] ELSE f[x]]

\* C10: raising one capacity answer to a higher-capacity option of the same
\* question lowers neither cap_points nor capacity_band, and does not make
\* capacity_max_allowed_band more cautious.
C10_CapacityMonotone ==
    Computed =>
        \A q \in 1..Len(CAPACITY_QUESTIONS) : \A k \in Tiers :
            k > Tier(form, q) =>
                LET higher == compute_results(WithTier(form, q, k))
                IN  /\ higher.cap_points >= results.cap_points
                    /\ CapacityRank(higher.capacity_band) >= CapacityRank(results.capacity_band)
                    /\ BandIndex(higher.capacity_max_allowed_band)
                          >= BandIndex(results.capacity_max_allowed_band)

\* One answer raised by one option lifts the band and the ceiling.
C10_Witness ==
    /\ Computed
    /\ results.cap_points = 10
    /\ \E q \in 1..Len(CAPACITY_QUESTIONS) :
          /\ Tier(form, q) < 4
          /\ LET higher == compute_results(WithTier(form, q, Tier(form, q) + 1))
             IN  /\ higher.cap_points = 12
                 /\ higher.capacity_band = "Medium capacity for loss"
                 /\ higher.capacity_max_allowed_band = "Balanced (45-56)"

FLAG_ORDER ==
    << "Many neutral answers (6+). Consider clarifying and reassessing.",
       "High score but strong discomfort with market swings-discuss suitability carefully.",
       "High score but self-reported limited experience-consider education / simplification." >>

\* The condition of each flag, read from the input and the reported score.
FlagHolds(flag) ==
    CASE flag = FLAG_ORDER[1] -> results.neutral_count >= 6
      [] flag = FLAG_ORDER[2] -> results.risk_attitude_score >= 68 /\ RawOf(12) >= 4
      [] flag = FLAG_ORDER[3] -> results.risk_attitude_score >= 68 /\ RawOf(9) >= 4

AggressiveScenario ==
    /\ \A i \in Statements :
          form.attitude_choices[i] = IF ITEMS[i] THEN "Agree" ELSE "Disagree"
    /\ form.emergency_months = "12+ months"
    /\ form.income_stability = "Very stable (multiple reliable sources)"
    /\ form.withdrawal_need = "Very unlikely"
    /\ form.debt_burden = "None"
    /\ form.portfolio_dependence = "Not dependent"

ScenarioOutcome(limits) ==
    /\ results.capacity_band = "High capacity for loss"
    /\ results.capacity_max_allowed_band = "Very Adventurous (80-100)"
    /\ results.override_applied = FALSE
    /\ results.alt_forced_zero_reasons = <<>>
    /\ results.base_limits = limits
    /\ results.final_limits = limits

\* C12 as written: the scenario ends with base = final limits {70, 0, 30}.
C12_Original_VeryAdventurousLimits ==
    (Computed /\ AggressiveScenario) =>
        ScenarioOutcome([max_equity |-> 70, max_sukuk |-> 0, max_alternatives |-> 30])

\* C12, amended: in the scenario, whatever the four booleans, capacity is
\* High, the ceiling Very Adventurous, no override, no gate fires, and base =
\* final limits = {70, 20, 10}: the score is 75, the band Adventurous.
C12_AggressiveScenario ==
    (Computed /\ AggressiveScenario) =>
        /\ ScenarioOutcome([max_equity |-> 70, max_sukuk |-> 20, max_alternatives |-> 10])
        /\ results.risk_attitude_score = 75
        /\ results.final_band = "Adventurous (68-79)"

\* The scenario with the gate enabled and a non-default checkbox.
C12_Witness ==
    /\ Computed
    /\ AggressiveScenario
    /\ form.limited_experience_gate
    /\ form.alt_equities_toggle
    /\ results.final_limits.max_alternatives = 10

\* A direct call has returned or raised.
Called == calls = 1

\* The selections and capacity answers absent or outside their enumeration,
\* by the enumerations the form offers.
InvalidSelections ==
    {i \in 1..Len(form.attitude_choices) : ~InSeq(form.attitude_choices[i], LIKERT)}

InvalidAnswers ==
    {q \in 1..Len(CAPACITY_QUESTIONS) :
        ~InSeq(form[CAPACITY_QUESTIONS[q].field], CAPACITY_QUESTIONS[q].options)}

MissingSelections == Len(form.attitude_choices) < Len(ITEMS)

InvalidInput == InvalidSelections # {} \/ InvalidAnswers # {} \/ MissingSelections

RESULTS_FIELDS ==
    { "risk_attitude_score", "risk_attitude_band", "neutral_count", "cap_points",
      "capacity_band", "capacity_max_allowed_band", "final_band", "override_applied",
      "base_limits", "final_limits", "alt_forced_zero_reasons", "flags",
      "alts_in_scope", "capacity_inputs" }

\* Fails exactly on invalid input and then returns nothing; returns a complete
\* Results otherwise.
AllOrNothing ==
    /\ error.raised <=> InvalidInput
    /\ error.raised => results = NoResults
    /\ ~error.raised => results # NoResults /\ DOMAIN results = RESULTS_FIELDS

\* The claim as the spec states it: on invalid input the error is raised
\* before any scoring occurs.
C13_Original_RaisedBeforeScoring ==
    Called =>
        /\ AllOrNothing
        /\ error.raised => error.statements_scored = 0 /\ ~error.attitude_scored

\* C13: compute_results fails exactly when a Likert selection or a capacity
\* answer is absent or outside its enumeration, or fewer than twelve
\* selections are given, and then returns no Results; otherwise it returns a
\* complete Results. The failure is not raised before scoring: it is the
\* KeyError of the first lookup of an offending value, an invalid selection
\* after the statements before it were scored, an invalid capacity answer
\* after the whole attitude scoring, and with valid values but too few
\* selections an IndexError after attitude and capacity were scored.
C13_FailsAtFirstBadLookup ==
    Called =>
        /\ AllOrNothing
        /\ InvalidSelections # {} =>
            /\ error.exception = "KeyError"
            /\ ~error.attitude_scored
            /\ \A i \in InvalidSelections : error.statements_scored < i
            /\ error.statements_scored + 1 \in InvalidSelections
        /\ InvalidSelections = {} /\ InvalidAnswers # {} =>
            /\ error.exception = "KeyError"
            /\ error.attitude_scored
            /\ error.statements_scored = Len(form.attitude_choices)
        /\ InvalidSelections = {} /\ InvalidAnswers = {} /\ MissingSelections =>
            /\ error.exception = "IndexError"
            /\ error.attitude_scored

\* An invalid capacity answer behind twelve valid selections: the call fails
\* with all twelve statements and the attitude score already computed.
C13_Witness ==
    /\ Called
    /\ InvalidSelections = {} /\ ~MissingSelections /\ InvalidAnswers # {}
    /\ error.raised /\ error.exception = "KeyError"
    /\ error.statements_scored = Len(ITEMS) /\ error.attitude_scored
    /\ results = NoResults

\* C14: override_applied is true exactly when final_band differs from
\* risk_attitude_band, which is exactly when risk_attitude_band is strictly
\* above capacity_max_allowed_band.
C14_OverrideIffCapped ==
    Computed =>
        /\ results.override_applied \in BOOLEAN
        /\ results.override_applied <=> (results.final_band # results.risk_attitude_band)
        /\ results.override_applied <=>
              (BandIndex(results.risk_attitude_band)
                  > BandIndex(results.capacity_max_allowed_band))

\* The ceiling caps the band: an override.
C14_Witness ==
    /\ Computed
    /\ results.override_applied
    /\ results.risk_attitude_band = "Very Adventurous (80-100)"
    /\ results.final_band = "Moderately Cautious (34-44)"

NUMERIC_FIELDS ==
    { "risk_attitude_score", "risk_attitude_band", "neutral_count", "cap_points",
      "capacity_band", "capacity_max_allowed_band", "final_band", "override_applied",
      "base_limits", "final_limits", "alt_forced_zero_reasons", "flags" }

SCOPE_ORDER ==
    << "Public REITs",
       "Commodity funds",
       "Selected equities treated as 'alternative-like' (internal classification)" >>

ScopeHolds(label) ==
    CASE label = SCOPE_ORDER[1] -> form.alt_scope_reits
      [] label = SCOPE_ORDER[2] -> form.alt_scope_commodities
      [] label = SCOPE_ORDER[3] -> form.alt_equities_toggle

\* C15: the input with its three scope booleans set to any other values gives
\* the same score, bands, points, limits, reasons and flags; alts_in_scope is
\* the sub-list of (REITs, commodity funds, classification note), in that
\* order, of the labels whose boolean is true.
C15_ScopeIsDescriptive ==
    Computed =>
        /\ \A r \in BOOLEAN : \A c \in BOOLEAN : \A e \in BOOLEAN :
              LET other == compute_results([form EXCEPT !.alt_scope_reits = r,
                                                        !.alt_scope_commodities = c,
                                                        !.alt_equities_toggle = e])
              IN  \A x \in NUMERIC_FIELDS : other[x] = results[x]
        /\ results.alts_in_scope = SelectSeq(SCOPE_ORDER, ScopeHolds)

\* All three booleans true: the three labels in order.
C15_Witness ==
    /\ Computed
    /\ form.alt_scope_reits /\ form.alt_scope_commodities /\ form.alt_equities_toggle
    /\ results.alts_in_scope = SCOPE_ORDER

LimitsSum(limits) == limits.max_equity + limits.max_sukuk + limits.max_alternatives

\* C17: base_limits sums to 100 and so does final_limits; gating moves the
\* whole removed alternatives cap into sukuk, the min(100, ...) never binding;
\* max_equity is the same in both.
C17_LimitsSumTo100 ==
    Computed =>
        LET b == results.base_limits
            f == results.final_limits
        IN  /\ LimitsSum(b) = 100
            /\ LimitsSum(f) = 100
            /\ b.max_sukuk + b.max_alternatives <= 100
            /\ f.max_equity = b.max_equity
            /\ f.max_sukuk - b.max_sukuk = b.max_alternatives - f.max_alternatives

\* The largest alternatives cap gated away: 30 moved into sukuk.
C17_Witness ==
    /\ Computed
    /\ results.alt_forced_zero_reasons # <<>>
    /\ results.base_limits.max_alternatives = 30
    /\ results.final_limits.max_alternatives = 0
    /\ results.final_limits.max_sukuk = 30
    /\ LimitsSum(results.final_limits) = 100

(***************************************************************************)
(* The session: submissions and navigation                                 *)
(***************************************************************************)

\* A step that handles a press of the submit button, the form complete or not.
Submitted == submissions' = submissions + 1

Complete(f) == Missing(f) = <<>>

\* The claim as the spec states it: every submission calls compute_results
\* once and stores the Results of the answers just submitted.
C16_Original_EverySubmissionComputes ==
    [][Submitted => calls' = calls + 1 /\ results' = compute_results(form)]_vars

\* C16: every complete submission calls compute_results exactly once and the
\* Results it returns replaces the stored one, whatever an earlier submission
\* left there; a submission with an answer missing calls nothing and leaves
\* the stored Results, possibly those of an earlier submission, as they were.
C16_CompleteSubmissionReplaces ==
    [][Submitted =>
        IF Complete(form)
        THEN calls' = calls + 1 /\ results' = compute_results(form) /\ error' = NoError
        ELSE calls' = calls /\ results' = results]_vars

\* A later complete submission after an incomplete one: the stored Results
\* are those of the form as last submitted.
C16_Witness ==
    /\ page = "results"
    /\ calls >= 2 /\ submissions > calls
    /\ Complete(form)
    /\ results = compute_results(form)

\* C18: from page = "questionnaire" and results = None, the results page is
\* never shown without results; the page becomes "results" only by the
\* Results button while results exist (nothing else changing) or by a complete
\* submission; a submission with an answer missing leaves page and results
\* unchanged and does not call compute_results.
C18_ResultsPageHasResults ==
    [][ /\ page' = "results" => results' # NoResults
        /\ (page # "results" /\ page' = "results") =>
              \/ results # NoResults /\ UNCHANGED <<results, form, calls, submissions>>
              \/ Submitted /\ Complete(form) /\ calls' = calls + 1
        /\ (Submitted /\ ~Complete(form)) => UNCHANGED <<page, results, calls>>
      ]_vars

\* The results page reached with results, after a submission that was
\* refused for a missing answer.
C18_Witness ==
    /\ page = "results"
    /\ results # NoResults
    /\ calls = 1 /\ submissions > calls

====
